---------------------------- MODULE Spec2Model ----------------------------
(***************************************************************************)
(* lib_hdfs/into_record.py: satellite swaths are cut into patches and the  *)
(* patches written into sharded tfrecord files, one MPI process per rank.  *)
(*                                                                         *)
(* One process is the chain                                                *)
(*     __main__ -> gen_swaths -> gen_patches -> write_patches              *)
(*                                           or interactive_writer         *)
(* of lazy generators.  Each action below is one step of that chain: the   *)
(* start-up of __main__, one iteration of the file loop of gen_swaths      *)
(* (with the set-up gen_patches does for the swath it receives), one       *)
(* iteration of the coordinate loop of gen_patches, and one body of the    *)
(* consumer's loop.                                                        *)
(*                                                                         *)
(* Modelled configuration: --resize is left at its default (None), samples *)
(* are integers (line 117: the swaths are int16), files are named by their *)
(* index in sorted(glob.glob(source_glob)).                                *)
(***************************************************************************)
EXTENDS Integers, Sequences, FiniteSets, TLC

(***************************************************************************)
(* Bounds of the model.                                                    *)
(***************************************************************************)
MaxSize == 2
MaxFiles == 3
MaxK == 2
MaxH == 4
MaxW == 3
MaxC == 2
MaxMod == 4
MaxShape == 3
MaxStride == 2
MaxWriteFailures == 2

VARIABLES
    size,                \* comm.Get_size()
    procs,               \* the ranks whose process is part of the run observed
    nfiles,              \* len(sorted(glob.glob(FLAGS.source_glob)))
    shape,               \* FLAGS.shape
    stride,              \* FLAGS.stride
    patches_per_record,  \* FLAGS.patches_per_record
    categories,          \* FLAGS.interactive_categories (None or a list)
    pltBound,            \* whether the global name plt is bound: the import of
                         \* line 18 is commented out, so it is not when the file
                         \* runs as a script, and is when that import is restored
    corpus,              \* which files source_glob may match (see Contents)
    out_dir,             \* whether FLAGS.out_dir exists
    pc,                  \* per rank: where its process stands
    fnames,              \* per rank: the list built by __main__
    nextf,               \* per rank: gen_swaths' position in fnames (1-based)
    cur,                 \* per rank: (fname, swath) held by gen_patches
    coords,              \* per rank: the candidate list of lines 124-128
    left,                \* per rank: the shuffled coordinates not yet taken
    pending,             \* per rank: the patch just yielded to the consumer
    i,                   \* per rank: enumerate's counter in write_patches
    f,                   \* per rank: the writer write_patches holds
    opened,              \* per rank: the paths it opened for writing, in order
    reads,               \* per rank: the files gen_swaths attempted, in order
    calls,               \* per rank: its write_feature calls, in order
    raised               \* per rank: the exception that ended the process

vars == <<size, procs, nfiles, shape, stride, patches_per_record, categories,
          pltBound, corpus, out_dir, pc, fnames, nextf, cur, coords, left, pending,
          i, f, opened, reads, calls, raised>>

config == <<size, procs, nfiles, shape, stride, patches_per_record,
            categories, pltBound, corpus>>

None == "None"

\* FLAGS.interactive_categories is None (argparse's nargs="+" gives no empty list)
NoCategories == <<>>

\* a name not bound yet: fname, swath of gen_patches, patch of the consumer
Unbound == [fname |-> -1]

(***************************************************************************)
(* Python's integer arithmetic and slicing.                                *)
(***************************************************************************)
\* a % b for b # 0: the result has the sign of b
PyMod(a, b) == IF b > 0 THEN a % b ELSE -((-a) % (-b))

\* a // b for b # 0: the floor of the quotient
PyFloorDiv(a, b) == IF b > 0 THEN a \div b ELSE (-a) \div (-b)

\* list(range(0, stop, step)) for step # 0
PyRange(stop, step) ==
    LET n == IF step > 0
             THEN (IF stop > 0 THEN (stop + step - 1) \div step ELSE 0)
             ELSE (IF stop < 0 THEN ((-stop) + (-step) - 1) \div (-step) ELSE 0)
    IN  [k \in 1..n |-> (k - 1) * step]

\* the indices a[start:stop] selects in an axis of length n
PySlice(start, stop, n) ==
    LET clamp(j) == IF j < 0 THEN (IF j + n < 0 THEN 0 ELSE j + n)
                    ELSE (IF j > n THEN n ELSE j)
    IN  clamp(start) .. (clamp(stop) - 1)

\* "{}-{}.tfrecord".format(rank, k)
RecName(rank, k) == ToString(rank) \o "-" \o ToString(k) \o ".tfrecord"

\* c + ".tfrecord"
CatName(c) == c \o ".tfrecord"

(***************************************************************************)
(* Swaths.  A swath is an H x W x C array; channel c (1-based here) holds  *)
(* the sample (x * W + y) % m[c] at (x, y): m[c] = 1 is a constant         *)
(* channel, a large m[c] a channel of distinct samples.                    *)
(***************************************************************************)
Pixel(s, x, y, c) == (x * s.W + y) % s.m[c]

Swath(H, W, m) == [kind |-> "swath", H |-> H, W |-> W, C |-> Len(m), m |-> m]

\* std[c] == 0: every sample of the channel is the same
StdIsZero(s, c) ==
    \A x \in 0..(s.H - 1), y \in 0..(s.W - 1) : Pixel(s, x, y, c) = Pixel(s, 0, 0, c)

\* the index sets of swath[x : x + shape_x, y : y + shape_y]
PatchRows(s, x) == PySlice(x, x + shape[1], s.H)
PatchCols(s, y) == PySlice(y, y + shape[2], s.W)

\* max(np.unique(patch[:, :, c], return_counts=True)[1]); the patch is not empty
max_uniq(s, x, y, c) ==
    LET cells == PatchRows(s, x) \X PatchCols(s, y)
        count(v) == Cardinality({p \in cells : Pixel(s, p[1], p[2], c) = v})
        counts == {count(Pixel(s, p[1], p[2], c)) : p \in cells}
    IN  CHOOSE n \in counts : \A k \in counts : k <= n

\* max() of an empty sequence raises ValueError
PatchIsEmpty(s, x, y) == PatchRows(s, x) = {} \/ PatchCols(s, y) = {}

\* the comparison of line 137 with <= for <
BelowThresholdInclusive(s, x, y, c) ==
    2 * max_uniq(s, x, y, c) <= shape[1] * shape[2]

\* max_uniq(c) < threshold, threshold = shape_x * shape_y * 0.5
BelowThreshold(s, x, y, c) == 2 * max_uniq(s, x, y, c) < shape[1] * shape[2]

has_clouds(s, x, y) == \E c \in 1..s.C : BelowThreshold(s, x, y, c)

\* np.isnan((patch - mean) / std).any(): 0 / 0 in a channel whose std is 0
HasNan(s, x, y) == \E c \in 1..s.C : StdIsZero(s, c)

\* the list of lines 124-128 with <= for < in line 127
CandidatesInclusive(s) ==
    LET xs == PyRange(s.H, stride[1])
        ys == IF Len(xs) = 0 THEN <<>> ELSE PyRange(s.W, stride[2])
        keep(x, y) == x + shape[1] <= s.H /\ y + shape[2] <= s.W
        all == [k \in 1..(Len(xs) * Len(ys)) |->
                   <<xs[((k - 1) \div Len(ys)) + 1], ys[((k - 1) % Len(ys)) + 1]>>]
    IN  SelectSeq(all, LAMBDA xy : keep(xy[1], xy[2]))

\* the list of lines 124-128; strides are not 0 where a range is evaluated
Candidates(s) ==
    LET xs == PyRange(s.H, stride[1])
        ys == IF Len(xs) = 0 THEN <<>> ELSE PyRange(s.W, stride[2])
        keep(x, y) == x + shape[1] < s.H /\ y + shape[2] < s.W
        all == [k \in 1..(Len(xs) * Len(ys)) |->
                   <<xs[((k - 1) \div Len(ys)) + 1], ys[((k - 1) % Len(ys)) + 1]>>]
    IN  SelectSeq(all, LAMBDA xy : keep(xy[1], xy[2]))

\* range(0, max_x, stride_x), and range(0, max_y, stride_y) inside its loop
RangeRaises(s) == stride[1] = 0 \/ (stride[1] > 0 /\ stride[2] = 0)

Range(seq) == {seq[k] : k \in 1..Len(seq)}

(***************************************************************************)
(* The files.  A file holds a swath or cannot be read.                     *)
(***************************************************************************)
Failure(why) == [kind |-> "failure", why |-> why]

Failures ==
    {Failure(why) : why \in {"IOError", "OpenReturnedNone", "HDF4Error",
                             "NotThreeDimensional"}}

\* a swath with two accepted patches, one with none, and one with a patch
\* whose first channel is a single value
FewInputs ==
    Failures \cup {Swath(4, 3, <<4>>), Swath(4, 2, <<2>>), Swath(4, 2, <<2, 3>>)}

\* a swath with one accepted patch
TinyInputs == {Failure("IOError"), Swath(4, 2, <<3>>)}

\* swaths of distinct samples, of every height and width
Ramps == {Swath(H, W, <<H * W>>) : H \in 1..MaxH, W \in 1..MaxW}

Moduli == UNION {[1..c -> 1..MaxMod] : c \in 1..MaxC}

Swaths == {Swath(H, W, m) : H \in 1..MaxH, W \in 1..MaxW, m \in Moduli}

\* what a file of the corpus may hold
Contents ==
    CASE corpus = "few" -> FewInputs
      [] corpus = "tiny" -> TinyInputs
      [] corpus = "ramps" -> Ramps
      [] corpus = "swaths" -> Swaths

(***************************************************************************)
(* __main__, lines 328-351, up to the first step of the consumer.          *)
(***************************************************************************)
\* line 338 with i == rank for i % size == rank
AssignNoWrap(rank) ==
    SelectSeq([k \in 1..nfiles |-> k - 1], LAMBDA idx : idx = rank)

\* line 337 with enumerate counting from 1
AssignFromOne(rank) ==
    SelectSeq([k \in 1..nfiles |-> k - 1], LAMBDA idx : (idx + 1) % size = rank)

\* lines 336-339: the sorted files whose index i has i % size == rank
Assign(rank) ==
    SelectSeq([k \in 1..nfiles |-> k - 1], LAMBDA idx : idx % size = rank)

\* lines 197-207: the reference histogram loads
HistLoads(loadOk) ==
    /\ \E k \in 1..Len(categories) : categories[k] \in {"close", "closed", "open"}
    /\ loadOk

\* lines 186-189: one writer per category, in the order of the categories
Writers == [k \in 1..Len(categories) |-> CatName(categories[k])]

\* line 342
NoFiles == "ValueError: source_glob does not match any files"

Raise(w, e) ==
    /\ pc' = [pc EXCEPT ![w] = "error"]
    /\ raised' = [raised EXCEPT ![w] = e]

Main(w) ==
    /\ w \in procs
    /\ pc[w] = "start"
    /\ UNCHANGED <<config, nextf, cur, coords, left, pending, i, f, reads, calls>>
    /\ \E mkOk, openOk, loadOk \in BOOLEAN :
       IF ~mkOk
       THEN /\ Raise(w, "OSError")
            /\ UNCHANGED <<out_dir, fnames, opened>>
       ELSE /\ out_dir' = TRUE
            /\ fnames' = [fnames EXCEPT ![w] = Assign(w)]
            /\ IF Assign(w) = <<>>
               THEN /\ Raise(w, NoFiles)
                    /\ UNCHANGED opened
               ELSE IF categories = NoCategories
               THEN /\ pc' = [pc EXCEPT ![w] = "pull"]
                    /\ UNCHANGED <<opened, raised>>
               ELSE IF ~openOk
               THEN /\ Raise(w, "OpError")
                    /\ UNCHANGED opened
               ELSE /\ opened' = [opened EXCEPT ![w] = Writers]
                    /\ IF HistLoads(loadOk)
                       THEN /\ pc' = [pc EXCEPT ![w] = "pull"]
                            /\ UNCHANGED raised
                       ELSE Raise(w, "NameError: File not found")

(***************************************************************************)
(* gen_swaths, lines 74-87: one iteration of the file loop, and lines      *)
(* 115-129 of gen_patches for the swath it yields.                         *)
(***************************************************************************)
\* what read(t) and np.rollaxis raise on each failure.  gdOpen (lines 48-54)
\* catches IOError, prints, and then returns the unbound local output.
ReadRaises(failure) ==
    CASE failure.why = "IOError" -> "UnboundLocalError"
      [] failure.why = "OpenReturnedNone" -> "AttributeError"
      [] failure.why = "HDF4Error" -> "HDF4Error"
      [] failure.why = "NotThreeDimensional" -> "AxisError"

ExceptionClasses ==
    {"UnboundLocalError", "AttributeError", "HDF4Error", "AxisError", "IOError",
     "ValueError", "ZeroDivisionError", "NameError", "AssertionError", "OSError",
     "OpError"}

\* line 79 with except IOError
CaughtOnlyIOError(e) == e = "IOError"

\* line 79: except Exception
CaughtInGenSwaths(e) == e \in ExceptionClasses

\* the swaths read ahead of the patches, as from a list
ExhaustedOrNot(w) == TRUE

\* the loop of line 131 has run through the coordinates of the swath it holds,
\* so gen_patches asks gen_swaths for the next swath (line 115)
Exhausted(w) == left[w] = {}

gen_swaths(w) ==
    /\ w \in procs
    /\ pc[w] = "pull"
    /\ Exhausted(w)
    /\ nextf[w] <= Len(fnames[w])
    /\ UNCHANGED <<config, out_dir, fnames, pending, i, f, opened, calls>>
    /\ nextf' = [nextf EXCEPT ![w] = @ + 1]
    /\ \E content \in Contents :
       LET t == fnames[w][nextf[w]] IN
       IF content.kind = "failure"
       THEN /\ reads' = [reads EXCEPT ![w] = Append(@, <<t, FALSE>>)]
            /\ UNCHANGED <<cur, coords, left>>
            /\ IF CaughtInGenSwaths(ReadRaises(content))
               THEN UNCHANGED <<pc, raised>>
               ELSE Raise(w, ReadRaises(content))
       ELSE /\ reads' = [reads EXCEPT ![w] = Append(@, <<t, TRUE>>)]
            /\ cur' = [cur EXCEPT ![w] = [fname |-> t, swath |-> content]]
            /\ IF RangeRaises(content)
               THEN /\ Raise(w, "ValueError: range() arg 3 must not be zero")
                    /\ UNCHANGED <<coords, left>>
               ELSE /\ coords' = [coords EXCEPT ![w] = Candidates(content)]
                    /\ left' = [left EXCEPT ![w] = Range(Candidates(content))]
                    /\ UNCHANGED <<pc, raised>>

\* the file loop is exhausted: the generators and the consumer's loop end
\* (line 249 or the end of write_patches), line 353
EndOfInput(w) ==
    /\ w \in procs
    /\ pc[w] = "pull"
    /\ Exhausted(w)
    /\ nextf[w] > Len(fnames[w])
    /\ pc' = [pc EXCEPT ![w] = "done"]
    /\ UNCHANGED <<config, out_dir, fnames, nextf, cur, coords, left, pending,
                   i, f, opened, reads, calls, raised>>

(***************************************************************************)
(* gen_patches, lines 131-141: one coordinate of the shuffled list.  The   *)
(* permutation np.random.shuffle chose is revealed one element at a time:  *)
(* its next element is any coordinate not taken yet.                       *)
(***************************************************************************)
Yields(s, x, y) == has_clouds(s, x, y) /\ ~HasNan(s, x, y)

gen_patches(w) ==
    /\ w \in procs
    /\ pc[w] = "pull"
    /\ \E xy \in left[w] :
        /\ left' = [left EXCEPT ![w] = @ \ {xy}]
        /\ UNCHANGED <<config, out_dir, fnames, nextf, cur, coords, i, f, opened,
                       reads, calls>>
        /\ LET s == cur[w].swath IN
           IF PatchIsEmpty(s, xy[1], xy[2])
           THEN /\ Raise(w, "ValueError: max() arg is an empty sequence")
                /\ UNCHANGED pending
           ELSE IF Yields(s, xy[1], xy[2])
           THEN /\ pending' = [pending EXCEPT ![w] = [fname |-> cur[w].fname, coord |-> xy]]
                /\ pc' = [pc EXCEPT ![w] = "yielded"]
                /\ UNCHANGED raised
           ELSE UNCHANGED <<pending, pc, raised>>

(***************************************************************************)
(* write_patches, lines 264-272: the body of the loop for one patch.       *)
(***************************************************************************)
\* line 265: i % patches_per_record == 0
StartsRecord(n) == PyMod(n, patches_per_record) = 0

\* line 266 with i for i // patches_per_record
RecordOfPatch(rank, n) == RecName(rank, n)

\* line 266
RecordOf(rank, n) == RecName(rank, PyFloorDiv(n, patches_per_record))

Call(path, patch, ok) ==
    [path |-> path, fname |-> patch.fname, coord |-> patch.coord, ok |-> ok]

write_patches(w) ==
    /\ w \in procs
    /\ pc[w] = "yielded"
    /\ categories = NoCategories
    /\ UNCHANGED <<config, out_dir, fnames, nextf, cur, coords, left, pending, reads>>
    /\ \E openOk, writeOk \in BOOLEAN :
       IF patches_per_record = 0
       THEN /\ Raise(w, "ZeroDivisionError")
            /\ UNCHANGED <<i, f, opened, calls>>
       ELSE IF StartsRecord(i[w]) /\ ~openOk
       THEN /\ Raise(w, "OpError")
            /\ UNCHANGED <<i, f, opened, calls>>
       ELSE LET rec == IF StartsRecord(i[w]) THEN RecordOf(w, i[w]) ELSE f[w] IN
            /\ f' = [f EXCEPT ![w] = rec]
            /\ opened' = [opened EXCEPT ![w] =
                              IF StartsRecord(i[w]) THEN Append(@, rec) ELSE @]
            /\ calls' = [calls EXCEPT ![w] = Append(@, Call(rec, pending[w], writeOk))]
            /\ IF writeOk
               THEN /\ i' = [i EXCEPT ![w] = @ + 1]
                    /\ pc' = [pc EXCEPT ![w] = "pull"]
                    /\ UNCHANGED raised
               ELSE /\ Raise(w, "OpError")
                    /\ UNCHANGED i

(***************************************************************************)
(* interactive_writer, lines 210-247.                                      *)
(***************************************************************************)
FailedCalls(w) == Len(SelectSeq(calls[w], LAMBDA c : ~c.ok))

\* lines 212-223: the patch is shown; plt is looked up in the module globals
ShowPatch(w) ==
    /\ w \in procs
    /\ pc[w] = "yielded"
    /\ categories # NoCategories
    /\ UNCHANGED <<config, out_dir, fnames, nextf, cur, coords, left, pending,
                   i, f, opened, reads, calls>>
    /\ IF pltBound
       THEN /\ pc' = [pc EXCEPT ![w] = "label"]
            /\ UNCHANGED raised
       ELSE Raise(w, "NameError: name 'plt' is not defined")

\* what input("label:") can give: an integer, text int() rejects, Ctrl-C
Answers ==
    {<<"int", n>> : n \in -1..3} \cup {<<"text", 0>>, <<"KeyboardInterrupt", 0>>}

\* lines 225-247: one round of the while loop
AskLabel(w) ==
    /\ w \in procs
    /\ pc[w] = "label"
    /\ UNCHANGED <<config, out_dir, fnames, nextf, cur, coords, left, pending,
                   i, f, opened, reads>>
    /\ \E answer \in Answers, writeOk \in BOOLEAN :
       IF answer[1] = "KeyboardInterrupt"
       THEN /\ pc' = [pc EXCEPT ![w] = "exit"]
            /\ UNCHANGED <<calls, raised>>
       ELSE IF answer[1] = "text"
       THEN UNCHANGED <<pc, calls, raised>>
       ELSE IF ~(0 <= answer[2] /\ answer[2] <= Len(Writers))
       THEN UNCHANGED <<pc, calls, raised>>
       ELSE IF answer[2] = Len(Writers)
       THEN /\ pc' = [pc EXCEPT ![w] = "pull"]
            /\ UNCHANGED <<calls, raised>>
       ELSE /\ writeOk \/ FailedCalls(w) < MaxWriteFailures
            /\ calls' = [calls EXCEPT ![w] =
                             Append(@, Call(Writers[answer[2] + 1], pending[w], writeOk))]
            /\ pc' = [pc EXCEPT ![w] = IF writeOk THEN "pull" ELSE "label"]
            /\ UNCHANGED raised

(***************************************************************************)
(* The run.                                                                *)
(***************************************************************************)
Ranks == 0..(size - 1)

OneRank(n) == {{r} : r \in 0..(n - 1)}
AllRanks(n) == {0..(n - 1)}

\* the state in which mpirun starts the processes; observed is "one" for
\* one process of the run, any rank, and "all" for all of them together
Start(sizes, observed, files, shapes, strides, ks, cats, inputs) ==
    /\ size \in sizes
    /\ procs \in (IF observed = "one" THEN OneRank(size) ELSE AllRanks(size))
    /\ nfiles \in files
    /\ shape \in shapes
    /\ stride \in strides
    /\ patches_per_record \in ks
    /\ categories \in cats
    /\ pltBound \in (IF categories = NoCategories THEN {FALSE} ELSE BOOLEAN)
    /\ corpus \in inputs
    /\ out_dir = FALSE
    /\ pc = [w \in procs |-> "start"]
    /\ fnames = [w \in procs |-> <<>>]
    /\ nextf = [w \in procs |-> 1]
    /\ cur = [w \in procs |-> Unbound]
    /\ coords = [w \in procs |-> <<>>]
    /\ left = [w \in procs |-> {}]
    /\ pending = [w \in procs |-> Unbound]
    /\ i = [w \in procs |-> 0]
    /\ f = [w \in procs |-> None]
    /\ opened = [w \in procs |-> <<>>]
    /\ reads = [w \in procs |-> <<>>]
    /\ calls = [w \in procs |-> <<>>]
    /\ raised = [w \in procs |-> None]

SmallShapes == {<<3, 1>>}
SmallStrides == {<<1, 1>>}
Labelled == {<<"open">>, <<"closed", "open">>, <<"other">>}

\* one rank of a batch run
Init ==
    Start(1..MaxSize, "one", 0..MaxFiles, SmallShapes, SmallStrides,
          -1..MaxK, {NoCategories}, {"few"})

Next ==
    \E w \in 0..(MaxSize - 1) :
        \/ Main(w)
        \/ gen_swaths(w)
        \/ gen_patches(w)
        \/ write_patches(w)
        \/ EndOfInput(w)

Spec == Init /\ [][Next]_vars

\* one rank of an interactive run
InitLabel ==
    Start(1..MaxSize, "one", 0..MaxFiles, SmallShapes, SmallStrides, {1},
          Labelled, {"tiny"})

NextLabel ==
    \E w \in 0..(MaxSize - 1) :
        \/ Main(w)
        \/ gen_swaths(w)
        \/ gen_patches(w)
        \/ ShowPatch(w)
        \/ AskLabel(w)
        \/ EndOfInput(w)

SpecLabel == InitLabel /\ [][NextLabel]_vars

\* every rank of a run, batch or interactive
InitMPI ==
    Start(1..MaxSize, "all", 0..MaxFiles, SmallShapes, SmallStrides, {1},
          {NoCategories, <<"open">>}, {"tiny"})

NextMPI ==
    \E w \in 0..(MaxSize - 1) :
        \/ Main(w)
        \/ gen_swaths(w)
        \/ gen_patches(w)
        \/ write_patches(w)
        \/ ShowPatch(w)
        \/ AskLabel(w)
        \/ EndOfInput(w)

SpecMPI == InitMPI /\ [][NextMPI]_vars

\* one batch process and one file, for every patch shape and stride
InitGrid ==
    Start({1}, "one", {1}, (-1..MaxShape) \X (-1..MaxShape),
          (-1..MaxStride) \X (-1..MaxStride), {1}, {NoCategories}, {"ramps"})

SpecGrid == InitGrid /\ [][Next]_vars

\* one batch process and one file, for every swath and positive patch shape
InitFilter ==
    Start({1}, "one", {1}, (1..MaxShape) \X (1..MaxShape), {<<2, 1>>},
          {1}, {NoCategories}, {"swaths"})

SpecFilter == InitFilter /\ [][Next]_vars

(***************************************************************************)
(* Work partitioning.                                                      *)
(***************************************************************************)
Started(w) == w \in procs /\ pc[w] # "start" /\ raised[w] # "OSError"

Increasing(seq) == \A j, k \in 1..Len(seq) : j < k => seq[j] < seq[k]

\* C1: the per-rank lists built by the main blocks of the ranks 0..size-1 are
\* pairwise disjoint, each keeps the sorted order, the file at sorted index
\* idx is in the list of rank idx mod size, and together they hold every
\* matched file.
C1_Partition ==
    (\A w \in Ranks : Started(w)) =>
        /\ \A v, w \in Ranks : v # w => Range(fnames[v]) \cap Range(fnames[w]) = {}
        /\ UNION {Range(fnames[w]) : w \in Ranks} = 0..(nfiles - 1)
        /\ \A w \in Ranks : Increasing(fnames[w])
        /\ \A w \in Ranks : \A idx \in Range(fnames[w]) : idx % size = w

C1_Witness ==
    /\ size >= 2
    /\ nfiles > size
    /\ \A w \in Ranks : Started(w) /\ fnames[w] # <<>>

(***************************************************************************)
(* Sharding.                                                               *)
(***************************************************************************)
Batch(w) == w \in procs /\ categories = NoCategories

CallsTo(w, path) == Len(SelectSeq(calls[w], LAMBDA c : c.path = path))

\* C2: with patches_per_record = K > 0, after N patches of the stream have
\* reached write_patches, ceil(N/K) shards were opened, named rank-0,
\* rank-1, ... in that order, the patch at stream position n went to shard
\* n div K, no shard got more than K patches and every shard but the last
\* got exactly K.
C2_Shards ==
    \A w \in procs :
        (Batch(w) /\ patches_per_record > 0) =>
            LET K == patches_per_record
                N == Len(calls[w])
            IN  /\ Len(opened[w]) * K >= N
                /\ (Len(opened[w]) - 1) * K < N \/ (N = 0 /\ opened[w] = <<>>)
                /\ \A j \in 1..Len(opened[w]) : opened[w][j] = RecName(w, j - 1)
                /\ \A n \in 1..N : calls[w][n].path = RecName(w, (n - 1) \div K)
                /\ \A j \in 1..Len(opened[w]) :
                       /\ CallsTo(w, opened[w][j]) <= K
                       /\ j < Len(opened[w]) => CallsTo(w, opened[w][j]) = K
                /\ pc[w] = "done" => \A n \in 1..N : calls[w][n].ok

C2_Witness ==
    \E w \in procs :
        /\ Batch(w)
        /\ pc[w] = "done"
        /\ patches_per_record = 2
        /\ Len(calls[w]) = 3
        /\ Len(opened[w]) = 2

(***************************************************************************)
(* Read failures.                                                          *)
(***************************************************************************)
ReadExceptions == {ReadRaises(x) : x \in Failures}

\* C6: a read failure never ends the process: the files are attempted in the
\* order of the list, a failed file gives no patch, and a process that
\* reaches its end has attempted every file of its list.
C6_SkipAndContinue ==
    \A w \in procs :
        /\ raised[w] \notin ReadExceptions
        /\ Len(reads[w]) = nextf[w] - 1
        /\ \A k \in 1..Len(reads[w]) : reads[w][k][1] = fnames[w][k]
        /\ \A n \in 1..Len(calls[w]) :
               \E k \in 1..Len(reads[w]) : reads[w][k] = <<calls[w][n].fname, TRUE>>
        /\ pc[w] = "done" => Len(reads[w]) = Len(fnames[w])

C6_Witness ==
    \E w \in procs :
        /\ pc[w] = "done"
        /\ Len(reads[w]) = 3
        /\ ~reads[w][1][2]
        /\ reads[w][2][2]
        /\ ~reads[w][3][2]
        /\ calls[w] # <<>>

(***************************************************************************)
(* Order of the record stream.                                             *)
(***************************************************************************)
Last(seq) == seq[Len(seq)]

\* C9: in a batch process the records are grouped by file in the order of
\* the list: a record is written for the file gen_patches holds, which is
\* the last file read, records of an earlier file come first, and the next
\* file is attempted only when every coordinate of the current one was taken
\* and the consumer holds no patch.
C9_FileOrder ==
    /\ [](\A w \in procs : \A p, q \in 1..Len(calls[w]) :
             p < q => calls[w][p].fname <= calls[w][q].fname)
    /\ [][\A w \in procs :
             /\ reads'[w] # reads[w] => left[w] = {} /\ pc[w] = "pull"
             /\ calls'[w] # calls[w] =>
                    /\ Last(calls'[w]).fname = cur[w].fname
                    /\ Last(reads[w]) = <<cur[w].fname, TRUE>>]_vars

C9_Witness ==
    \E w \in procs :
        /\ Batch(w)
        /\ pc[w] = "done"
        /\ Len(calls[w]) = 3
        /\ calls[w][2].fname < calls[w][3].fname
        /\ calls[w][1].coord = <<0, 1>>
        /\ calls[w][2].coord = <<0, 0>>
        /\ Len(reads[w]) = 3
        /\ ~reads[w][2][2]

(***************************************************************************)
(* Start-up errors.                                                        *)
(***************************************************************************)
\* C10: a process raises "source_glob does not match any files" exactly when
\* its own list is empty, that is when nfiles <= rank; it has then created
\* the output directory and has read and written nothing; the ranks below
\* nfiles do not raise it and their lists hold every file.
C10_EmptySubset ==
    \A w \in procs :
        /\ raised[w] = NoFiles <=> (Started(w) /\ nfiles <= w)
        /\ raised[w] = NoFiles =>
               out_dir /\ reads[w] = <<>> /\ opened[w] = <<>> /\ calls[w] = <<>>
        /\ (Started(w) /\ w < nfiles) =>
               /\ fnames[w] # <<>>
               /\ UNION {Range(Assign(r)) : r \in {v \in Ranks : v < nfiles}}
                      = 0..(nfiles - 1)

C10_Witness ==
    \E w \in procs :
        /\ 0 < nfiles
        /\ nfiles < size
        /\ w >= nfiles
        /\ raised[w] = NoFiles

NonPositive ==
    \/ patches_per_record <= 0
    \/ shape[1] <= 0 \/ shape[2] <= 0
    \/ stride[1] <= 0 \/ stride[2] <= 0

\* C7: with a non-positive patch shape, stride or patches_per_record the
\* process fails before it reads a file or opens a shard, and never writes.
C7_RejectedAtStartup ==
    \A w \in procs :
        NonPositive =>
            /\ reads[w] = <<>>
            /\ opened[w] = <<>>
            /\ calls[w] = <<>>
            /\ pc[w] # "done"

(***************************************************************************)
(* Write failures.                                                         *)
(***************************************************************************)
WriteFailed(w) == \E n \in 1..Len(calls[w]) : ~calls[w][n].ok

C5_DisjointNames ==
    \A v, w \in procs : v # w => Range(opened[v]) \cap Range(opened[w]) = {}

(***************************************************************************)
(* Patches.                                                                *)
(***************************************************************************)
Holds(w) == w \in procs /\ cur[w].fname # -1

\* the points of the stride grid inside the swath from which a patch fits
\* with a row and a column to spare
GridPoints(s) ==
    {xy \in (0..(s.H - 1)) \X (0..(s.W - 1)) :
        /\ xy[1] % stride[1] = 0
        /\ xy[2] % stride[2] = 0
        /\ xy[1] + shape[1] < s.H
        /\ xy[2] + shape[2] < s.W}

\* C4: with positive strides the candidate list of a swath is the set of the
\* grid points (x, y) with x + ph < H and y + pw < W, each once, and every
\* coordinate taken or yielded is one of them.
C4_Coordinates ==
    \A w \in procs :
        (Holds(w) /\ stride[1] > 0 /\ stride[2] > 0) =>
            LET s == cur[w].swath IN
            /\ Range(coords[w]) = GridPoints(s)
            /\ Len(coords[w]) = Cardinality(GridPoints(s))
            /\ left[w] \subseteq GridPoints(s)
            /\ pc[w] = "yielded" =>
                   /\ pending[w].coord[1] + shape[1] < s.H
                   /\ pending[w].coord[2] + shape[2] < s.W
                   /\ pending[w].coord[1] % stride[1] = 0
                   /\ pending[w].coord[2] % stride[2] = 0

C4_Witness ==
    \E w \in procs :
        /\ Holds(w)
        /\ stride = <<1, 1>>
        /\ Len(coords[w]) = 2
        /\ pc[w] = "yielded"
        /\ pending[w].coord = <<0, 1>>

\* the samples of channel c in the patch at (x, y), for a positive shape
Cells(x, y) == (x..(x + shape[1] - 1)) \X (y..(y + shape[2] - 1))

\* one value fills at least half of the patch in channel c
Dominated(s, x, y, c) ==
    \E p \in Cells(x, y) :
        2 * Cardinality({q \in Cells(x, y) :
                            Pixel(s, q[1], q[2], c) = Pixel(s, p[1], p[2], c)})
            >= shape[1] * shape[2]

ConstantOverSwath(s, c) ==
    Cardinality({Pixel(s, x, y, c) : x \in 0..(s.H - 1), y \in 0..(s.W - 1)}) = 1

\* C3 as stated: a yielded patch has no dominated channel.
C3_EveryChannel ==
    \A w \in procs :
        pc[w] = "yielded" =>
            \A c \in 1..cur[w].swath.C :
                ~Dominated(cur[w].swath, pending[w].coord[1], pending[w].coord[2], c)

\* C3 amended: a yielded patch has a channel that is not dominated, and no
\* channel of its swath is constant over the whole swath.
C3_SomeChannel ==
    \A w \in procs :
        pc[w] = "yielded" =>
            /\ \E c \in 1..cur[w].swath.C :
                   ~Dominated(cur[w].swath, pending[w].coord[1], pending[w].coord[2], c)
            /\ \A c \in 1..cur[w].swath.C : ~ConstantOverSwath(cur[w].swath, c)

C3_Witness ==
    \E w \in procs :
        /\ pc[w] = "yielded"
        /\ cur[w].swath.C = 2
        /\ Dominated(cur[w].swath, pending[w].coord[1], pending[w].coord[2], 1)
        /\ ~Dominated(cur[w].swath, pending[w].coord[1], pending[w].coord[2], 2)

=============================================================================
